---- MODULE Spec2Model ----
(***************************************************************************)
(* A model of kleinanzeigen-checker: the command handlers of               *)
(* telegram_bot.py, the sqlite store of persistence.py, and the ChatClient *)
(* and KleinanzeigenBot collaborators the handlers call.                   *)
(*                                                                         *)
(* telegram_bot.py and persistence.py are modelled from their source.      *)
(* chat_client.py and kleinanzeigenbot.py are not part of the source tree: *)
(* the operators ChatClient_*, KleinanzeigenBot, matches and fetch_tick    *)
(* follow the specification's sections 4.2 to 4.5.                         *)
(***************************************************************************)
EXTENDS Integers, Sequences, FiniteSets, TLC

(***************************************************************************)
(* Bounds of the model.                                                    *)
(***************************************************************************)
NumChats == 2
MaxItem == 2
MaxSteps == 3
MaxPending == 1

Chats == 1..NumChats
OneChat == {1}
Items == 1..MaxItem
Names == {"a", "b"}
Urls == {"u1", "u2", "bad"}

\* Item texts and filter strings are sequences of characters.
ItemText(i) ==
    CASE i = 1 -> <<"b", "a", "d">>
      [] i = 2 -> <<"x", "y">>
      [] OTHER -> <<"s", "x">>

F1 == <<"a", "d">>
F2 == <<"s">>

\* The argument lists a command may carry, and what a link shows when a bot
\* is created for it.
AddBotArgs == {<<"a", "u1">>, <<"a", "u2">>, <<"b", "u1">>, <<"a", "bad">>, <<"a">>}
RemoveBotArgs == {<<n>> : n \in Names} \cup {<< >>}
AddFilterArgs == {<< >>, <<F1>>, <<F1, F2>>, <<F2, F2>>}
SeedSets == {{}, {1}}

VARIABLES
    registered_bots_dict,   \* the registry: a dict, as its entries in insertion order
    db_bots,                \* table bots(name PRIMARY KEY, url), rows in rowid order
    db_filters,             \* table filters(filter PRIMARY KEY), rows in rowid order
    job_queue,              \* per chat, the number of repeating fetch jobs scheduled
    last,                   \* the last command or tick: what it was given and what it
                            \* answered, and what was the case before it
    steps,                  \* commands and ticks so far
    in_flight,              \* per chat, the number of ticks that are executing
    pending                 \* the handlers suspended at the await in get_chat_client

vars == <<registered_bots_dict, db_bots, db_filters, job_queue, last, steps,
          in_flight, pending>>

(***************************************************************************)
(* Sequences and dicts.                                                    *)
(***************************************************************************)
Range(s) == {s[i] : i \in 1..Len(s)}

\* Python dict: key lookup, and assignment d[k] = v (in place for a known key,
\* appended for a new one).
Has(d, k) == \E i \in 1..Len(d) : d[i].key = k
Get(d, k) == d[CHOOSE i \in 1..Len(d) : d[i].key = k].val
DictSet(d, k, v) ==
    IF Has(d, k)
    THEN [i \in 1..Len(d) |-> IF d[i].key = k THEN [key |-> k, val |-> v] ELSE d[i]]
    ELSE Append(d, [key |-> k, val |-> v])
Keys(d) == {d[i].key : i \in 1..Len(d)}

(***************************************************************************)
(* persistence.py                                                          *)
(***************************************************************************)
\* REPLACE INTO bots: the row with this name is deleted, the new row inserted.
db_add_bot(bots, name, url) ==
    Append(SelectSeq(bots, LAMBDA r : r[1] # name), <<name, url>>)

db_remove_bot(bots, name) == SelectSeq(bots, LAMBDA r : r[1] # name)

db_clear_bots(bots) == << >>

db_load_bots(bots) == bots

db_add_filter(filters, filter_str) ==
    Append(SelectSeq(filters, LAMBDA f : f # filter_str), filter_str)

db_clear_filters(filters) == << >>

db_load_filters(filters) == filters

(***************************************************************************)
(* kleinanzeigenbot.py and chat_client.py, from the specification.         *)
(***************************************************************************)
ValidLink(url) == url # "bad"

NoneNotified == [i \in Items |-> 0]

\* createTarget(url, name): validates the url; a valid Target is seeded with the
\* items its link shows now, and nothing is notified for them.
KleinanzeigenBot(url, name, seed) ==
    [name |-> name,
     url |-> url,
     invalid_link_flag |-> ~ValidLink(url),
     items |-> IF ValidLink(url) THEN seed ELSE {},
     notified |-> NoneNotified]

ChatClient(id) ==
    [id |-> id, registered_bots |-> << >>, filters |-> << >>, running |-> FALSE]

HasBot(cc, name) == \E i \in 1..Len(cc.registered_bots) : cc.registered_bots[i].name = name

\* addTarget: DuplicateName if the name exists, otherwise appended.
\* addTarget without the look for the name: the Target is always appended.
ChatClient_add_bot_appends(cc, bot) ==
    [cc |-> [cc EXCEPT !.registered_bots = Append(@, bot)], ok |-> TRUE]

ChatClient_add_bot(cc, bot) ==
    IF HasBot(cc, bot.name)
    THEN [cc |-> cc, ok |-> FALSE]
    ELSE [cc |-> [cc EXCEPT !.registered_bots = Append(@, bot)], ok |-> TRUE]

\* removeTarget: NotFound if absent, otherwise removed.
ChatClient_remove_bot(cc, name) ==
    IF HasBot(cc, name)
    THEN [cc |-> [cc EXCEPT !.registered_bots = SelectSeq(@, LAMBDA b : b.name # name)],
          ok |-> TRUE]
    ELSE [cc |-> cc, ok |-> FALSE]

ChatClient_add_filter(cc, f) == [cc EXCEPT !.filters = Append(@, f)]

fetch_job_running(cc) == cc.running

IsSubstring(f, text) ==
    \E k \in 0..(Len(text) - Len(f)) : SubSeq(text, k + 1, k + Len(f)) = f

\* FilterSet.matches: some filter string occurs in the text.
matches(filters, text) == \E j \in 1..Len(filters) : IsSubstring(filters[j], text)

\* start: a no-op when Running; otherwise one repeating job is scheduled.
start_fetch_job(cc, jq) ==
    IF cc.running
    THEN [cc |-> cc, jq |-> jq]
    ELSE [cc |-> [cc EXCEPT !.running = TRUE], jq |-> [jq EXCEPT ![cc.id] = @ + 1]]

\* stop: a no-op when Idle; otherwise the repeating job is cancelled.
stop_fetch_job(cc, jq) ==
    IF cc.running
    THEN [cc |-> [cc EXCEPT !.running = FALSE],
          jq |-> [jq EXCEPT ![cc.id] = IF @ > 0 THEN @ - 1 ELSE 0]]
    ELSE [cc |-> cc, jq |-> jq]

(***************************************************************************)
(* telegram_bot.py: the handlers, as functions of the state they act on.   *)
(***************************************************************************)
State == [reg |-> registered_bots_dict, bots |-> db_bots,
          flt |-> db_filters, jq |-> job_queue]

NoPairs == << >>

Out(st, replies, raised, info) ==
    [st |-> st, replies |-> replies, raised |-> raised, info |-> info]

\* register without the "already registered" test.
register_always(st, chat_id) ==
    Out([st EXCEPT !.reg = DictSet(@, chat_id, ChatClient(chat_id))],
        <<"successfully registered this chat">>, FALSE, NoPairs)

register(st, chat_id) ==
    IF chat_id \in Keys(st.reg)
    THEN Out(st, <<"This chat is already registered.">>, FALSE, NoPairs)
    ELSE Out([st EXCEPT !.reg = DictSet(@, chat_id, ChatClient(chat_id))],
             <<"successfully registered this chat">>, FALSE, NoPairs)

\* get_chat_client without the membership test: a new ChatClient every time.
get_chat_client_fresh(st, chat_id) ==
    Out([st EXCEPT !.reg = DictSet(@, chat_id, ChatClient(chat_id))],
        IF chat_id \notin Keys(st.reg)
        THEN <<"successfully registered this chat">> ELSE << >>,
        FALSE, NoPairs)

get_chat_client(st, chat_id) ==
    IF chat_id \notin Keys(st.reg)
    THEN register(st, chat_id)
    ELSE Out(st, << >>, FALSE, NoPairs)

\* start_bots scheduling the repeating job itself, whatever the job's state.
start_bots_always_schedules(st, chat_id) ==
    LET g == get_chat_client(st, chat_id)
        cc == Get(g.st.reg, chat_id)
    IN  Out([g.st EXCEPT !.reg = DictSet(@, chat_id, [cc EXCEPT !.running = TRUE]),
                         !.jq = [@ EXCEPT ![chat_id] = @ + 1]],
            g.replies \o <<"Fetch job started">>, FALSE, NoPairs)

start_bots(st, chat_id) ==
    LET g == get_chat_client(st, chat_id)
        r == start_fetch_job(Get(g.st.reg, chat_id), g.st.jq)
    IN  Out([g.st EXCEPT !.reg = DictSet(@, chat_id, r.cc), !.jq = r.jq],
            g.replies \o <<"Fetch job started">>, FALSE, NoPairs)

\* stop_fetch_job under the "not running" test instead of after it.
stop_only_if_not_running(st, chat_id) ==
    LET g == get_chat_client(st, chat_id)
        cc == Get(g.st.reg, chat_id)
        r == stop_fetch_job(cc, g.st.jq)
    IN  IF ~fetch_job_running(cc)
        THEN Out([g.st EXCEPT !.reg = DictSet(@, chat_id, r.cc), !.jq = r.jq],
                 g.replies \o <<"Fetch job is not running yet.", "Fetch job stopped">>,
                 FALSE, NoPairs)
        ELSE Out(g.st, g.replies \o <<"Fetch job stopped">>, FALSE, NoPairs)

stop(st, chat_id) ==
    LET g == get_chat_client(st, chat_id)
        cc == Get(g.st.reg, chat_id)
        warn == IF ~fetch_job_running(cc)
                THEN <<"Fetch job is not running yet.">>
                ELSE << >>
        r == stop_fetch_job(cc, g.st.jq)
    IN  Out([g.st EXCEPT !.reg = DictSet(@, chat_id, r.cc), !.jq = r.jq],
            g.replies \o warn \o <<"Fetch job stopped">>, FALSE, NoPairs)

\* add_bot without the test of invalid_link_flag.
add_bot_unchecked(st, chat_id, args, seed, db_fails) ==
    LET g == get_chat_client(st, chat_id)
        cc == Get(g.st.reg, chat_id)
    IN  IF Len(args) # 2
        THEN Out(g.st, g.replies \o <<"add_bot command requires two arguments.">>,
                 FALSE, NoPairs)
        ELSE
        LET bot == KleinanzeigenBot(args[2], args[1], seed)
            st2 == [g.st EXCEPT
                      !.reg = DictSet(@, chat_id, ChatClient_add_bot(cc, bot).cc)]
        IN  IF db_fails
            THEN Out(st2, g.replies, TRUE, NoPairs)
            ELSE Out([st2 EXCEPT !.bots = db_add_bot(@, bot.name, bot.url)],
                     g.replies \o <<"added new bot">>, FALSE, NoPairs)

add_bot(st, chat_id, args, seed, db_fails) ==
    LET g == get_chat_client(st, chat_id)
        cc == Get(g.st.reg, chat_id)
    IN  IF Len(args) # 2
        THEN Out(g.st, g.replies \o <<"add_bot command requires two arguments.">>,
                 FALSE, NoPairs)
        ELSE
        LET bot == KleinanzeigenBot(args[2], args[1], seed)
            \* chatClient.add_bot(bot): what it returns is not looked at
            st2 == [g.st EXCEPT
                      !.reg = DictSet(@, chat_id, ChatClient_add_bot(cc, bot).cc)]
        IN  IF bot.invalid_link_flag
            THEN Out(g.st, g.replies \o <<"something went wrong, link is not valid!">>,
                     FALSE, NoPairs)
            ELSE IF db_fails
            THEN Out(st2, g.replies, TRUE, NoPairs)
            ELSE Out([st2 EXCEPT !.bots = db_add_bot(@, bot.name, bot.url)],
                     g.replies \o <<"added new bot">>, FALSE, NoPairs)

RECURSIVE db_add_filters(_, _)
db_add_filters(filters, strs) ==
    IF strs = << >>
    THEN filters
    ELSE db_add_filters(db_add_filter(filters, Head(strs)), Tail(strs))

RECURSIVE add_filters(_, _)
add_filters(cc, strs) ==
    IF strs = << >>
    THEN cc
    ELSE add_filters(ChatClient_add_filter(cc, Head(strs)), Tail(strs))

\* add_filter with one filter list for the whole process: the strings go to
\* every registered Session.
add_filter_all_sessions(st, chat_id, args, fails_at) ==
    LET g == get_chat_client(st, chat_id)
        done == IF fails_at = 0 THEN Len(args) ELSE fails_at
        stored == IF fails_at = 0 THEN Len(args) ELSE fails_at - 1
        st2 == [g.st EXCEPT
                  !.reg = [k \in 1..Len(@) |->
                             [key |-> @[k].key,
                              val |-> add_filters(@[k].val, SubSeq(args, 1, done))]],
                  !.flt = db_add_filters(@, SubSeq(args, 1, stored))]
    IN  IF fails_at = 0
        THEN Out(st2, g.replies \o <<"added new filter(s)">>, FALSE, NoPairs)
        ELSE Out(st2, g.replies, TRUE, NoPairs)

\* fails_at = k > 0: the k-th db_add_filter of the loop raises; 0: none does.
add_filter(st, chat_id, args, fails_at) ==
    LET g == get_chat_client(st, chat_id)
        cc == Get(g.st.reg, chat_id)
        done == IF fails_at = 0 THEN Len(args) ELSE fails_at
        stored == IF fails_at = 0 THEN Len(args) ELSE fails_at - 1
        cc2 == add_filters(cc, SubSeq(args, 1, done))
        st2 == [g.st EXCEPT !.reg = DictSet(@, chat_id, cc2),
                            !.flt = db_add_filters(@, SubSeq(args, 1, stored))]
    IN  IF fails_at = 0
        THEN Out(st2, g.replies \o <<"added new filter(s)">>, FALSE, NoPairs)
        ELSE Out(st2, g.replies, TRUE, NoPairs)

show_filters(st, chat_id) ==
    LET g == get_chat_client(st, chat_id)
        cc == Get(g.st.reg, chat_id)
    IN  IF Len(cc.filters) <= 0
        THEN Out(g.st, g.replies \o <<"no active filters">>, FALSE, NoPairs)
        ELSE Out(g.st, g.replies \o <<"current filter(s)">>, FALSE, NoPairs)

\* clear_filters emptying the Session's list and leaving the store as it is.
clear_filters_keeps_store(st, chat_id, db_fails) ==
    LET g == get_chat_client(st, chat_id)
        cc == Get(g.st.reg, chat_id)
        st2 == [g.st EXCEPT !.reg = DictSet(@, chat_id, [cc EXCEPT !.filters = << >>])]
    IN  IF db_fails
        THEN Out(st2, g.replies, TRUE, NoPairs)
        ELSE Out(st2, g.replies \o <<"cleared all filters">>, FALSE, NoPairs)

clear_filters(st, chat_id, db_fails) ==
    LET g == get_chat_client(st, chat_id)
        cc == Get(g.st.reg, chat_id)
        st2 == [g.st EXCEPT !.reg = DictSet(@, chat_id, [cc EXCEPT !.filters = << >>])]
    IN  IF db_fails
        THEN Out(st2, g.replies, TRUE, NoPairs)
        ELSE Out([st2 EXCEPT !.flt = db_clear_filters(@)],
                 g.replies \o <<"cleared all filters">>, FALSE, NoPairs)

BotPairs(bots) == [i \in 1..Len(bots) |-> <<bots[i].name, bots[i].url>>]

\* clear_bots emptying the Session's list and leaving the store as it is.
clear_bots_keeps_store(st, chat_id, db_fails) ==
    LET g == get_chat_client(st, chat_id)
        r == stop_fetch_job(Get(g.st.reg, chat_id), g.st.jq)
        st2 == [g.st EXCEPT
                  !.reg = DictSet(@, chat_id, [r.cc EXCEPT !.registered_bots = << >>]),
                  !.jq = r.jq]
    IN  IF db_fails
        THEN Out(st2, g.replies, TRUE, NoPairs)
        ELSE Out(st2, g.replies \o <<"Cleared registered bots.">>, FALSE,
                 BotPairs(r.cc.registered_bots))

clear_bots(st, chat_id, db_fails) ==
    LET g == get_chat_client(st, chat_id)
        r == stop_fetch_job(Get(g.st.reg, chat_id), g.st.jq)
        info == BotPairs(r.cc.registered_bots)
        st2 == [g.st EXCEPT
                  !.reg = DictSet(@, chat_id, [r.cc EXCEPT !.registered_bots = << >>]),
                  !.jq = r.jq]
    IN  IF db_fails
        THEN Out(st2, g.replies, TRUE, NoPairs)
        ELSE Out([st2 EXCEPT !.bots = db_clear_bots(@)],
                 g.replies \o <<"Cleared registered bots.">>, FALSE, info)

status(st, chat_id) ==
    LET g == get_chat_client(st, chat_id)
        cc == Get(g.st.reg, chat_id)
    IN  Out(g.st,
            g.replies \o <<IF fetch_job_running(cc) THEN "status: running"
                                                     ELSE "status: idle">>,
            FALSE, BotPairs(cc.registered_bots))

\* db_remove_bot before the result of chatClient.remove_bot is looked at.
remove_bot_db_first(st, chat_id, args, db_fails) ==
    IF Len(args) # 1
    THEN Out(st, <<"wrong number of arguments.">>, FALSE, NoPairs)
    ELSE
    LET g == get_chat_client(st, chat_id)
        rm == ChatClient_remove_bot(Get(g.st.reg, chat_id), args[1])
        st2 == [g.st EXCEPT !.reg = DictSet(@, chat_id, rm.cc)]
        st3 == [st2 EXCEPT !.bots = db_remove_bot(@, args[1])]
        r == stop_fetch_job(rm.cc, st3.jq)
    IN  IF db_fails
        THEN Out(st2, g.replies, TRUE, NoPairs)
        ELSE IF ~rm.ok
        THEN Out(st3, g.replies \o <<"could not remove bot from active list.">>,
                 FALSE, NoPairs)
        ELSE IF Len(rm.cc.registered_bots) <= 0
        THEN Out([st3 EXCEPT !.reg = DictSet(@, chat_id, r.cc), !.jq = r.jq],
                 g.replies \o <<"successfully removed. Stopping fetch job.">>,
                 FALSE, NoPairs)
        ELSE Out(st3, g.replies \o <<"successfully removed.">>, FALSE, NoPairs)

\* remove_bot that never stops the job.
remove_bot_no_stop(st, chat_id, args, db_fails) ==
    IF Len(args) # 1
    THEN Out(st, <<"wrong number of arguments.">>, FALSE, NoPairs)
    ELSE
    LET g == get_chat_client(st, chat_id)
        rm == ChatClient_remove_bot(Get(g.st.reg, chat_id), args[1])
        st2 == [g.st EXCEPT !.reg = DictSet(@, chat_id, rm.cc)]
        st3 == [st2 EXCEPT !.bots = db_remove_bot(@, args[1])]
    IN  IF ~rm.ok
        THEN Out(g.st, g.replies \o <<"could not remove bot from active list.">>,
                 FALSE, NoPairs)
        ELSE IF db_fails
        THEN Out(st2, g.replies, TRUE, NoPairs)
        ELSE Out(st3, g.replies \o <<"successfully removed.">>, FALSE, NoPairs)

remove_bot(st, chat_id, args, db_fails) ==
    IF Len(args) # 1
    THEN Out(st, <<"wrong number of arguments.">>, FALSE, NoPairs)
    ELSE
    LET g == get_chat_client(st, chat_id)
        rm == ChatClient_remove_bot(Get(g.st.reg, chat_id), args[1])
        st2 == [g.st EXCEPT !.reg = DictSet(@, chat_id, rm.cc)]
        st3 == [st2 EXCEPT !.bots = db_remove_bot(@, args[1])]
        r == stop_fetch_job(rm.cc, st3.jq)
    IN  IF ~rm.ok
        THEN Out(g.st, g.replies \o <<"could not remove bot from active list.">>,
                 FALSE, NoPairs)
        ELSE IF db_fails
        THEN Out(st2, g.replies, TRUE, NoPairs)
        ELSE IF Len(rm.cc.registered_bots) <= 0
        THEN Out([st3 EXCEPT !.reg = DictSet(@, chat_id, r.cc), !.jq = r.jq],
                 g.replies \o <<"successfully removed. Stopping fetch job.">>,
                 FALSE, NoPairs)
        ELSE Out(st3, g.replies \o <<"successfully removed.">>, FALSE, NoPairs)

RECURSIVE add_loaded_bots(_, _, _)
add_loaded_bots(cc, rows, seeds) ==
    IF rows = << >>
    THEN cc
    ELSE add_loaded_bots(
           ChatClient_add_bot(cc, KleinanzeigenBot(Head(rows)[2], Head(rows)[1],
                                                   seeds[Head(rows)[1]])).cc,
           Tail(rows), seeds)

\* __main__: the store is read and handed to the first registered ChatClient,
\* if there is one.
main(st, seeds) ==
    LET bots == db_load_bots(st.bots)
        filters == db_load_filters(st.flt)
    IN  IF (bots # << >> \/ filters # << >>) /\ st.reg # << >>
        THEN LET first == st.reg[1]
                 cc == add_loaded_bots(first.val, bots, seeds)
             IN  [st EXCEPT !.reg = DictSet(@, first.key, [cc EXCEPT !.filters = filters])]
        ELSE st

(***************************************************************************)
(* The fetch job's tick, from the specification's section 4.3.             *)
(***************************************************************************)
FetchResults ==
    {[ok |-> FALSE, items |-> {}]} \cup {[ok |-> TRUE, items |-> C] : C \in SUBSET Items}

Bump(n) == IF n < 2 THEN n + 1 ELSE 2

NewItems(bot, C) == C \ bot.items

\* Every fetched item that passes the filters, seen before or not.
Notifiable_all_fetched(bot, C, filters) ==
    {i \in C : ~matches(filters, ItemText(i))}

Notifiable(bot, C, filters) ==
    {i \in NewItems(bot, C) : ~matches(filters, ItemText(i))}

\* The seen set replaced by the fetched set.
SeenAfter_replaced(bot, C) == C

SeenAfter(bot, C) == bot.items \cup C

tick_bot(bot, res, filters) ==
    IF ~res.ok
    THEN bot
    ELSE [bot EXCEPT
            !.items = SeenAfter(bot, res.items),
            !.notified = [i \in Items |->
                            IF i \in Notifiable(bot, res.items, filters)
                            THEN Bump(@[i]) ELSE @[i]]]

\* A tick given up at the first Target whose fetch fails: the Targets after
\* it are not processed.
fetch_tick_abort_on_failure(cc, fetch) ==
    [cc EXCEPT !.registered_bots =
        [k \in 1..Len(@) |->
            IF \E j \in 1..k : ~fetch[@[j].name].ok
            THEN @[k]
            ELSE tick_bot(@[k], fetch[@[k].name], cc.filters)]]

fetch_tick(cc, fetch) ==
    [cc EXCEPT !.registered_bots =
        [k \in 1..Len(@) |-> tick_bot(@[k], fetch[@[k].name], cc.filters)]]

tick_sent(cc, fetch) ==
    UNION {{<<cc.registered_bots[k].name, i>> :
              i \in IF fetch[cc.registered_bots[k].name].ok
                    THEN Notifiable(cc.registered_bots[k],
                                    fetch[cc.registered_bots[k].name].items, cc.filters)
                    ELSE {}} : k \in 1..Len(cc.registered_bots)}

BotNames(cc) == {cc.registered_bots[k].name : k \in 1..Len(cc.registered_bots)}

(***************************************************************************)
(* The state machine.                                                      *)
(***************************************************************************)
\* Each repeating job runs one tick at a time.
may_tick(jq, inflight, c) == inflight[c] < jq[c]

\* The handlers that call get_chat_client before they look at their arguments.
NoArgHandlers == {"start_bots", "stop", "show_filters", "clear_filters", "clear_bots", "status"}

NoTick == [fetched |-> {}, fetch_ok |-> {}, sent |-> {}, delivered |-> {}]

NoLast ==
    [op |-> "none", chat |-> 0, args |-> << >>, replies |-> << >>,
     raised |-> FALSE, info |-> NoPairs,
     pre_registered |-> FALSE, pre_running |-> FALSE, undisturbed |-> TRUE,
     fetched |-> {}, fetch_ok |-> {}, sent |-> {}, delivered |-> {}]

Init ==
    /\ registered_bots_dict = << >>
    /\ db_bots = << >>
    /\ db_filters = << >>
    /\ job_queue = [c \in Chats |-> 0]
    /\ last = NoLast
    /\ steps = 0
    /\ in_flight = [c \in Chats |-> 0]
    /\ pending = << >>

\* What a handler or a tick that ran from one await to the next leaves behind.
Effect(op, chat_id, args, out, t) ==
    /\ steps < MaxSteps
    /\ steps' = steps + 1
    /\ registered_bots_dict' = out.st.reg
    /\ db_bots' = out.st.bots
    /\ db_filters' = out.st.flt
    /\ job_queue' = out.st.jq
    /\ last' = [op |-> op, chat |-> chat_id, args |-> args, replies |-> out.replies,
                raised |-> out.raised, info |-> out.info,
                pre_registered |-> Has(registered_bots_dict, chat_id),
                pre_running |-> Has(registered_bots_dict, chat_id)
                                /\ fetch_job_running(Get(registered_bots_dict, chat_id)),
                \* no store call has raised and the process has not restarted
                undisturbed |-> last.undisturbed /\ ~out.raised /\ op # "restart",
                fetched |-> t.fetched, fetch_ok |-> t.fetch_ok,
                sent |-> t.sent, delivered |-> t.delivered]

\* A handler that runs to its end with nothing else in between.  A restart
\* ends the process and with it everything that was executing.
Apply(op, chat_id, args, out, t) ==
    /\ Effect(op, chat_id, args, out, t)
    /\ in_flight' = IF op = "restart" THEN [c \in Chats |-> 0] ELSE in_flight
    /\ pending' = IF op = "restart" THEN << >> ELSE pending

Register(CS) == \E c \in CS : Apply("register", c, << >>, register(State, c), NoTick)

StartBots(CS) == \E c \in CS : Apply("start_bots", c, << >>, start_bots(State, c), NoTick)

Stop(CS) == \E c \in CS : Apply("stop", c, << >>, stop(State, c), NoTick)

AddBot(CS) ==
    \E c \in CS, args \in AddBotArgs, seed \in SeedSets, db_fails \in BOOLEAN :
        Apply("add_bot", c, args, add_bot(State, c, args, seed, db_fails),
              [NoTick EXCEPT !.fetched = IF Len(args) = 2 /\ ValidLink(args[2])
                                         THEN {<<args[1], i>> : i \in seed} ELSE {}])

AddFilter(CS) ==
    \E c \in CS, args \in AddFilterArgs :
        \E fails_at \in 0..Len(args) :
            Apply("add_filter", c, args, add_filter(State, c, args, fails_at), NoTick)

ShowFilters(CS) ==
    \E c \in CS : Apply("show_filters", c, << >>, show_filters(State, c), NoTick)

ClearFilters(CS) ==
    \E c \in CS, db_fails \in BOOLEAN :
        Apply("clear_filters", c, << >>, clear_filters(State, c, db_fails), NoTick)

ClearBots(CS) ==
    \E c \in CS, db_fails \in BOOLEAN :
        Apply("clear_bots", c, << >>, clear_bots(State, c, db_fails), NoTick)

Status(CS) == \E c \in CS : Apply("status", c, << >>, status(State, c), NoTick)

RemoveBot(CS) ==
    \E c \in CS, args \in RemoveBotArgs, db_fails \in BOOLEAN :
        Apply("remove_bot", c, args, remove_bot(State, c, args, db_fails), NoTick)

\* The process ends and starts again: the module is loaded with an empty
\* registry and an empty job queue, the store is what it was, and __main__ runs.
Restart ==
    \E seeds \in [Names -> SeedSets] :
        Apply("restart", 0, << >>,
              Out(main([State EXCEPT !.reg = << >>, !.jq = [c \in Chats |-> 0]], seeds),
                  << >>, FALSE, NoPairs),
              NoTick)

\* One tick of a chat's repeating job: every bot fetches (or fails to), and
\* each send of a notification succeeds or fails.
TickDone(c) ==
    LET cc == Get(registered_bots_dict, c)
    IN  \E fetch \in [BotNames(cc) -> FetchResults] :
        \E send_fails \in SUBSET {p[2] : p \in tick_sent(cc, fetch)} :
          Effect("tick", c, << >>,
                 Out([State EXCEPT !.reg = DictSet(@, c, fetch_tick(cc, fetch))],
                     << >>, FALSE, NoPairs),
                 [fetched |-> UNION {{<<n, i>> : i \in fetch[n].items} :
                                       n \in BotNames(cc)},
                  fetch_ok |-> {n \in BotNames(cc) : fetch[n].ok},
                  sent |-> tick_sent(cc, fetch),
                  delivered |-> {p \in tick_sent(cc, fetch) : p[2] \notin send_fails}])

\* A tick that runs from its start to its end with no handler in between.
Tick(CS) ==
    \E c \in CS \cap Keys(registered_bots_dict) :
        /\ may_tick(job_queue, in_flight, c)
        /\ TickDone(c)
        /\ UNCHANGED <<in_flight, pending>>

\* A tick starts; handlers and other chats' ticks run before it ends.
TickBegin(CS) ==
    \E c \in CS \cap Keys(registered_bots_dict) :
        /\ may_tick(job_queue, in_flight, c)
        /\ in_flight' = [in_flight EXCEPT ![c] = @ + 1]
        /\ UNCHANGED <<registered_bots_dict, db_bots, db_filters, job_queue, last,
                       steps, pending>>

\* A tick that started ends, whether or not its job was stopped meanwhile.
TickEnd(CS) ==
    \E c \in CS \cap Keys(registered_bots_dict) :
        /\ in_flight[c] > 0
        /\ TickDone(c)
        /\ in_flight' = [in_flight EXCEPT ![c] = @ - 1]
        /\ UNCHANGED pending

\* A handler of a chat that is not registered: get_chat_client registers the
\* chat and the handler is suspended while the reply to that is sent.
Suspend(c, op, args) ==
    /\ Len(pending) < MaxPending
    /\ Effect("get_chat_client", c, args, get_chat_client(State, c), NoTick)
    /\ pending' = Append(pending, [chat |-> c, op |-> op, args |-> args])
    /\ UNCHANGED in_flight

Await(CS) ==
    \E c \in CS \ Keys(registered_bots_dict) :
        \/ \E o \in NoArgHandlers : Suspend(c, o, << >>)
        \/ \E a \in AddBotArgs : Suspend(c, "add_bot", a)
        \/ \E a \in AddFilterArgs : Suspend(c, "add_filter", a)
        \/ \E a \in {r \in RemoveBotArgs : Len(r) = 1} : Suspend(c, "remove_bot", a)

\* A suspended handler goes on from get_chat_client's return (line 98) to its end.
Resume ==
    \E k \in 1..Len(pending) :
      LET p == pending[k]
      IN
        /\ pending' = SubSeq(pending, 1, k - 1) \o SubSeq(pending, k + 1, Len(pending))
        /\ UNCHANGED in_flight
        /\ \/ /\ p.op = "start_bots"
              /\ Effect("start_bots", p.chat, p.args, start_bots(State, p.chat), NoTick)
           \/ /\ p.op = "stop"
              /\ Effect("stop", p.chat, p.args, stop(State, p.chat), NoTick)
           \/ /\ p.op = "add_bot"
              /\ \E seed \in SeedSets, db_fails \in BOOLEAN :
                    Effect("add_bot", p.chat, p.args,
                           add_bot(State, p.chat, p.args, seed, db_fails),
                           [NoTick EXCEPT !.fetched =
                               IF Len(p.args) = 2 /\ ValidLink(p.args[2])
                               THEN {<<p.args[1], i>> : i \in seed} ELSE {}])
           \/ /\ p.op = "add_filter"
              /\ \E fails_at \in 0..Len(p.args) :
                    Effect("add_filter", p.chat, p.args,
                           add_filter(State, p.chat, p.args, fails_at), NoTick)
           \/ /\ p.op = "show_filters"
              /\ Effect("show_filters", p.chat, p.args, show_filters(State, p.chat), NoTick)
           \/ /\ p.op = "clear_filters"
              /\ \E db_fails \in BOOLEAN :
                    Effect("clear_filters", p.chat, p.args,
                           clear_filters(State, p.chat, db_fails), NoTick)
           \/ /\ p.op = "clear_bots"
              /\ \E db_fails \in BOOLEAN :
                    Effect("clear_bots", p.chat, p.args,
                           clear_bots(State, p.chat, db_fails), NoTick)
           \/ /\ p.op = "status"
              /\ Effect("status", p.chat, p.args, status(State, p.chat), NoTick)
           \/ /\ p.op = "remove_bot"
              /\ \E db_fails \in BOOLEAN :
                    Effect("remove_bot", p.chat, p.args,
                           remove_bot(State, p.chat, p.args, db_fails), NoTick)

Commands(CS) ==
    \/ Register(CS)
    \/ StartBots(CS)
    \/ Stop(CS)
    \/ AddBot(CS)
    \/ AddFilter(CS)
    \/ ShowFilters(CS)
    \/ ClearFilters(CS)
    \/ ClearBots(CS)
    \/ Status(CS)
    \/ RemoveBot(CS)

\* One chat talks to the bot.
Next ==
    \/ Commands(OneChat)
    \/ Restart
    \/ Tick(OneChat)

Spec == Init /\ [][Next]_vars

\* Every chat talks to the bot.
NextChats ==
    \/ Commands(Chats)
    \/ Restart
    \/ Tick(Chats)

SpecChats == Init /\ [][NextChats]_vars

\* Every chat talks to the bot, and handlers and ticks are interleaved at
\* their awaits.
NextAwait ==
    \/ NextChats
    \/ Await(Chats)
    \/ Resume
    \/ TickBegin(Chats)
    \/ TickEnd(Chats)

SpecAwait == Init /\ [][NextAwait]_vars

\* The state /start_bots from chat 1 leaves the freshly started process in:
\* the chat registered, its job Running.
InitRunning ==
    LET out == start_bots([reg |-> << >>, bots |-> << >>, flt |-> << >>,
                           jq |-> [c \in Chats |-> 0]], 1)
    IN  /\ registered_bots_dict = out.st.reg
        /\ db_bots = out.st.bots
        /\ db_filters = out.st.flt
        /\ job_queue = out.st.jq
        /\ last = [NoLast EXCEPT !.op = "start_bots", !.chat = 1,
                                 !.replies = out.replies]
        /\ steps = 0
        /\ in_flight = [c \in Chats |-> 0]
        /\ pending = << >>

SpecRunning == InitRunning /\ [][Next]_vars

(***************************************************************************)
(* The claims.                                                             *)
(***************************************************************************)
TargetPairs(cc) ==
    {<<cc.registered_bots[i].name, cc.registered_bots[i].url>> :
        i \in 1..Len(cc.registered_bots)}

\* The session a command of chat c finds in registry d: the registered one,
\* or the empty one get_chat_client creates.
SessionIn(d, c) == IF Has(d, c) THEN Get(d, c) ELSE ChatClient(c)

\* C1: after a restart, the targets and filters of the store are back in a
\* Session: some Session holds exactly the stored (name, url) pairs and the
\* stored filters.
C1_RestartRoundTrip ==
    (last.op = "restart" /\ (db_bots # << >> \/ db_filters # << >>)) =>
        \E k \in 1..Len(registered_bots_dict) :
            /\ TargetPairs(registered_bots_dict[k].val) = Range(db_bots)
            /\ Range(registered_bots_dict[k].val.filters) = Range(db_filters)

\* C2: add_bot with a name the Session already holds is reported as a failure
\* and changes nothing: not the Session's targets, not the stored row.
C2_DuplicateNameNoMutation ==
    [][(/\ last'.op = "add_bot"
        /\ Len(last'.args) = 2
        /\ ValidLink(last'.args[2])
        /\ HasBot(SessionIn(registered_bots_dict, last'.chat), last'.args[1]))
       => /\ SessionIn(registered_bots_dict', last'.chat).registered_bots
               = SessionIn(registered_bots_dict, last'.chat).registered_bots
          /\ db_bots' = db_bots
          /\ "added new bot" \notin Range(last'.replies)
          /\ last'.replies # << >>]_vars

StopPerformed ==
    \/ last.op = "stop"
    \/ last.op = "clear_bots"
    \/ /\ last.op = "remove_bot"
       /\ "successfully removed. Stopping fetch job." \in Range(last.replies)

\* C3: once stop, clear_bots or the remove_bot of the last target has performed
\* stop_fetch_job, the job is not running and no repeating job is scheduled;
\* stop performs it whether or not the job was reported as running.
C3_StopThenNotRunning ==
    StopPerformed =>
        /\ Has(registered_bots_dict, last.chat)
        /\ ~fetch_job_running(Get(registered_bots_dict, last.chat))
        /\ job_queue[last.chat] = 0
        /\ (last.op = "stop" => "Fetch job stopped" \in Range(last.replies))

C3_Witness ==
    /\ last.op = "stop"
    /\ last.pre_running
    /\ Get(registered_bots_dict, last.chat).registered_bots # << >>

\* C4: after start_bots the job is Running with exactly one repeating job
\* scheduled for the chat, and start_bots on a Running Session changes nothing.
C4_StartIdempotent ==
    [][last'.op = "start_bots" =>
        /\ Has(registered_bots_dict', last'.chat)
        /\ fetch_job_running(Get(registered_bots_dict', last'.chat))
        /\ job_queue'[last'.chat] = 1
        /\ (last'.pre_running =>
              /\ registered_bots_dict' = registered_bots_dict
              /\ job_queue' = job_queue)]_vars

C4_Witness ==
    /\ last.op = "start_bots"
    /\ last.pre_running
    /\ job_queue[last.chat] = 1

\* C5: the registry holds one Session per chat id at most, and register on a
\* registered chat answers "already registered" and leaves the registry, and
\* with it the Session's targets, filters and job, as they were.
C5_RegisterIdempotent ==
    [][/\ \A i, j \in 1..Len(registered_bots_dict') :
            registered_bots_dict'[i].key = registered_bots_dict'[j].key => i = j
       /\ (last'.op = "register" /\ Has(registered_bots_dict, last'.chat)) =>
            /\ registered_bots_dict' = registered_bots_dict
            /\ job_queue' = job_queue
            /\ last'.replies = <<"This chat is already registered.">>]_vars

C5_Witness ==
    /\ last.op = "register"
    /\ last.pre_registered
    /\ Get(registered_bots_dict, last.chat).registered_bots # << >>
    /\ Get(registered_bots_dict, last.chat).filters # << >>

\* C6: remove_bot with a name the Session does not hold answers "not found"
\* and leaves the Session's targets, the stored targets and the job as they were.
C6_RemoveUnknownNoMutation ==
    [][(/\ last'.op = "remove_bot"
        /\ Len(last'.args) = 1
        /\ ~HasBot(SessionIn(registered_bots_dict, last'.chat), last'.args[1]))
       => /\ SessionIn(registered_bots_dict', last'.chat)
               = SessionIn(registered_bots_dict, last'.chat)
          /\ db_bots' = db_bots
          /\ job_queue' = job_queue
          /\ ~last'.raised
          /\ "could not remove bot from active list." \in Range(last'.replies)]_vars

C6_Witness ==
    /\ last.op = "remove_bot"
    /\ "could not remove bot from active list." \in Range(last.replies)
    /\ Get(registered_bots_dict, last.chat).registered_bots # << >>
    /\ fetch_job_running(Get(registered_bots_dict, last.chat))
    /\ db_bots # << >>

NoInvalidTarget(d, bots) ==
    /\ \A k \in 1..Len(d) : \A i \in 1..Len(d[k].val.registered_bots) :
          /\ ~d[k].val.registered_bots[i].invalid_link_flag
          /\ ValidLink(d[k].val.registered_bots[i].url)
    /\ \A i \in 1..Len(bots) : ValidLink(bots[i][2])

\* C7: add_bot with a link that fails validation answers "link is not valid"
\* and creates nothing: the Session, the store and the job are as they were,
\* and no Session and no stored row ever holds an invalid link.
C7_InvalidTargetNotCreated ==
    [][/\ NoInvalidTarget(registered_bots_dict', db_bots')
       /\ (last'.op = "add_bot" /\ Len(last'.args) = 2 /\ ~ValidLink(last'.args[2])) =>
            /\ SessionIn(registered_bots_dict', last'.chat)
                 = SessionIn(registered_bots_dict, last'.chat)
            /\ db_bots' = db_bots
            /\ db_filters' = db_filters
            /\ job_queue' = job_queue
            /\ "something went wrong, link is not valid!" \in Range(last'.replies)]_vars

C7_Witness ==
    /\ last.op = "add_bot"
    /\ "something went wrong, link is not valid!" \in Range(last.replies)
    /\ Get(registered_bots_dict, last.chat).registered_bots # << >>
    /\ db_bots # << >>

EndsWith(s, t) ==
    /\ Len(s) >= Len(t)
    /\ SubSeq(s, Len(s) - Len(t) + 1, Len(s)) = t

\* C8: when a store call of a command raises, the command's whole in-memory
\* effect has still taken place: every filter string given is appended, and
\* the job is stopped when remove_bot emptied the targets.
C8_PersistFailureDoesNotBlock ==
    (last.raised /\ Has(registered_bots_dict, last.chat)) =>
        LET cc == Get(registered_bots_dict, last.chat)
        IN  /\ (last.op = "add_filter" => EndsWith(cc.filters, last.args))
            /\ (last.op = "add_bot" => HasBot(cc, last.args[1]))
            /\ (last.op = "remove_bot" =>
                  /\ ~HasBot(cc, last.args[1])
                  /\ (cc.registered_bots = << >> => ~fetch_job_running(cc)))
            /\ (last.op = "clear_bots" =>
                  cc.registered_bots = << >> /\ ~fetch_job_running(cc))
            /\ (last.op = "clear_filters" => cc.filters = << >>)

FetchedOf(l, name) == {i \in Items : <<name, i>> \in l.fetched}
SentOf(l, name) == {i \in Items : <<name, i>> \in l.sent}

\* C9: creating a Target seeds it with the items I its link shows and notifies
\* for none of them; a tick that fetches I and one more item x, which no filter
\* matches, notifies for x alone and leaves the seen set I with x added.
C9_SeedThenOnlyNew ==
    [][/\ (/\ last'.op = "add_bot"
           /\ Len(last'.args) = 2
           /\ ~HasBot(SessionIn(registered_bots_dict, last'.chat), last'.args[1])
           /\ HasBot(SessionIn(registered_bots_dict', last'.chat), last'.args[1]))
          => LET bots == Get(registered_bots_dict', last'.chat).registered_bots
             IN  /\ last'.sent = {}
                 /\ bots[Len(bots)].items = FetchedOf(last', last'.args[1])
                 /\ bots[Len(bots)].notified = NoneNotified
       /\ last'.op = "tick" =>
            LET cc == Get(registered_bots_dict, last'.chat)
                cc2 == Get(registered_bots_dict', last'.chat)
            IN  \A k \in 1..Len(cc.registered_bots) :
                  LET b == cc.registered_bots[k]
                      C == FetchedOf(last', b.name)
                  IN  (/\ b.name \in last'.fetch_ok
                       /\ \E x \in C \ b.items :
                            /\ C = b.items \cup {x}
                            /\ ~matches(cc.filters, ItemText(x)))
                      => /\ SentOf(last', b.name) = C \ b.items
                         /\ cc2.registered_bots[k].items = C
                         /\ \A i \in b.items : cc2.registered_bots[k].notified[i]
                                                  = b.notified[i]]_vars

C9_Witness ==
    /\ last.op = "tick"
    /\ \E k \in 1..Len(Get(registered_bots_dict, last.chat).registered_bots) :
         LET b == Get(registered_bots_dict, last.chat).registered_bots[k]
         IN  /\ SentOf(last, b.name) = {2}
             /\ b.items = {1, 2}
             /\ b.notified[1] = 0
             /\ b.notified[2] = 1

C11_PartialFailureIsolated ==
    [][(/\ last'.op = "tick"
        /\ BotNames(Get(registered_bots_dict, last'.chat)) \ last'.fetch_ok # {})
       => LET cc == Get(registered_bots_dict, last'.chat)
              cc2 == Get(registered_bots_dict', last'.chat)
          IN  /\ fetch_job_running(cc2)
              /\ job_queue'[last'.chat] = job_queue[last'.chat]
              /\ \A k \in 1..Len(cc.registered_bots) :
                   LET b == cc.registered_bots[k]
                       b2 == cc2.registered_bots[k]
                       C == FetchedOf(last', b.name)
                   IN  /\ (b.name \notin last'.fetch_ok =>
                             /\ b2.items = b.items
                             /\ SentOf(last', b.name) = {})
                       /\ (b.name \in last'.fetch_ok =>
                             /\ SentOf(last', b.name)
                                  = {i \in C \ b.items : ~matches(cc.filters, ItemText(i))}
                             /\ b2.items = b.items \cup C
                             /\ \A i \in SentOf(last', b.name) : b2.notified[i] = 1)]_vars

C11_Witness ==
    /\ last.op = "tick"
    /\ LET bots == Get(registered_bots_dict, last.chat).registered_bots
       IN  /\ Len(bots) = 2
           /\ bots[1].name \notin last.fetch_ok
           /\ bots[2].name \in last.fetch_ok
           /\ SentOf(last, bots[2].name) # {}
           /\ SentOf(last, bots[2].name) \subseteq bots[2].items
           /\ fetch_job_running(Get(registered_bots_dict, last.chat))

\* C12: at most one tick of a Session executes at any instant, whatever
\* start_bots is repeated and however long a tick takes, while ticks of
\* different Sessions execute at the same time; a tick starts only while the
\* Session's job is scheduled, and a stop issued while a tick executes leaves
\* that tick executing and the job unscheduled, so that no further tick starts.
C12_NoOverlappingTicks ==
    [][/\ \A c \in Chats :
            /\ in_flight'[c] <= 1
            /\ in_flight'[c] > in_flight[c] => (job_queue[c] > 0 /\ in_flight[c] = 0)
       /\ (last'.op = "tick" /\ steps' # steps /\ in_flight' = in_flight)
            => (job_queue[last'.chat] > 0 /\ in_flight[last'.chat] = 0)
       /\ (last'.op = "stop" /\ steps' # steps)
            => /\ job_queue'[last'.chat] = 0
               /\ ~fetch_job_running(Get(registered_bots_dict', last'.chat))
               /\ in_flight'[last'.chat] = in_flight[last'.chat]]_vars

C12_Witness ==
    /\ last.op = "stop"
    /\ last.pre_running
    /\ job_queue[last.chat] = 0
    /\ \A c \in {1, 2} : in_flight[c] = 1

ReportingCommands ==
    {"register", "start_bots", "stop", "add_bot", "remove_bot", "clear_bots",
     "add_filter", "clear_filters", "status"}

\* C13: every command of a chat ends with a response that tells success or
\* failure: none ends, or is aborted by a raising store call, without its
\* response, and none answers with both a warning that the operation could not
\* be done and the report that it was done.
C13_DefiniteOutcome ==
    last.op \in ReportingCommands =>
        /\ ~last.raised
        /\ last.replies # << >>
        /\ ~(/\ "Fetch job is not running yet." \in Range(last.replies)
             /\ "Fetch job stopped" \in Range(last.replies))

\* C14: a clear_bots that completes reports exactly the Targets the Session
\* had, and whatever the state before it, the Session has no Target, the store
\* has no Target, the job is Idle, the Session is still registered and its
\* filters, and the stored filters, are what they were.
C14_ClearBotsEmptiesAll ==
    [][(last'.op = "clear_bots" /\ ~last'.raised) =>
        LET before == SessionIn(registered_bots_dict, last'.chat)
            after == Get(registered_bots_dict', last'.chat)
        IN  /\ Has(registered_bots_dict', last'.chat)
            /\ last'.info = BotPairs(before.registered_bots)
            /\ EndsWith(last'.replies, <<"Cleared registered bots.">>)
            /\ after.registered_bots = << >>
            /\ db_bots' = << >>
            /\ ~fetch_job_running(after)
            /\ job_queue'[last'.chat] = 0
            /\ after.filters = before.filters
            /\ db_filters' = db_filters]_vars

C14_Witness ==
    /\ last.op = "clear_bots"
    /\ ~last.raised
    /\ last.pre_running
    /\ last.info # << >>
    /\ db_bots = << >>
    /\ Get(registered_bots_dict, last.chat).registered_bots = << >>

Entries(d, c) == {k \in 1..Len(d) : d[k].key = c}

\* C15: however handlers are interleaved at their awaits, a chat has one
\* Session: a handler of a registered chat finds that Session, a handler of a
\* chat that is not registered creates exactly one, with no Target, no filter
\* and an Idle job, and no registration, explicit or by get_chat_client,
\* replaces or changes a Session that exists.
C15_GetOrCreateAtomic ==
    [][(steps' # steps /\ last'.op # "restart") =>
        LET c == last'.chat
        IN  /\ \A b \in Keys(registered_bots_dict) :
                 /\ Cardinality(Entries(registered_bots_dict', b)) = 1
                 /\ last'.op \in {"register", "get_chat_client", "status", "show_filters"}
                      => Get(registered_bots_dict', b) = Get(registered_bots_dict, b)
            /\ Len(registered_bots_dict') =
                 Len(registered_bots_dict) + (IF Has(registered_bots_dict', c)
                                                 /\ ~Has(registered_bots_dict, c)
                                              THEN 1 ELSE 0)
            /\ (/\ last'.op \in {"register", "get_chat_client", "status", "show_filters"}
                /\ ~Has(registered_bots_dict, c))
                 => /\ Get(registered_bots_dict', c) = ChatClient(c)
                    /\ ChatClient(c).registered_bots = << >>
                    /\ ChatClient(c).filters = << >>
                    /\ ~fetch_job_running(ChatClient(c))
                    /\ job_queue'[c] = 0
            /\ last'.op = "get_chat_client" => ~Has(registered_bots_dict, c)]_vars

\* A handler of a chat is suspended in get_chat_client and another command of
\* that chat has meanwhile added a Target to the Session.
C15_Witness ==
    /\ pending # << >>
    /\ last.op = "add_bot"
    /\ last.chat = pending[1].chat
    /\ Get(registered_bots_dict, last.chat).registered_bots # << >>

\* C16: a command of chat A, an auto-registration or a tick of chat A leaves
\* the Targets, the filters and the job of every other chat's Session as they
\* were; and the startup's rehydration hands the stored Targets and filters to
\* one Session at most, leaving any other as it is.
C16_SessionIsolation ==
    [][/\ (steps' # steps /\ last'.op # "restart") =>
            \A b \in Keys(registered_bots_dict) \ {last'.chat} :
                /\ Has(registered_bots_dict', b)
                /\ Get(registered_bots_dict', b) = Get(registered_bots_dict, b)
                /\ job_queue'[b] = job_queue[b]
                /\ in_flight'[b] = in_flight[b]
       /\ \A seeds \in [Names -> SeedSets] :
            LET m == main(State, seeds)
            IN  /\ Len(m.reg) = Len(registered_bots_dict)
                /\ m.jq = job_queue
                /\ \A k \in 2..Len(registered_bots_dict) :
                     m.reg[k] = registered_bots_dict[k]]_vars

\* Chat 2 has a Target, a filter or a running job of its own, and a command of
\* chat 1 has just changed chat 1's Session.
C16_Witness ==
    /\ last.chat = 1
    /\ last.op \in {"add_bot", "add_filter", "start_bots", "clear_bots"}
    /\ Has(registered_bots_dict, 1)
    /\ Has(registered_bots_dict, 2)
    /\ Get(registered_bots_dict, 2).filters # << >>
    /\ Get(registered_bots_dict, 1).filters # Get(registered_bots_dict, 2).filters
    /\ db_filters # << >>

\* C17 as stated: whenever a remove_bot or a clear_bots completes and the
\* Session has no Target, the Session's job is Idle; when it completes and the
\* Session has a Target, the job is as it was.
C17_ZeroTargetsThenIdle ==
    (last.op \in {"remove_bot", "clear_bots"} /\ ~last.raised) =>
        LET cc == SessionIn(registered_bots_dict, last.chat)
        IN  IF cc.registered_bots = << >>
            THEN ~fetch_job_running(cc) /\ job_queue[last.chat] = 0
            ELSE fetch_job_running(cc) = last.pre_running

\* C17, amended: whenever a clear_bots, or a remove_bot that removed a Target,
\* completes and the Session has no Target, the Session's job is Idle; a
\* removal that leaves a Target, and a remove_bot that removed nothing, leave
\* the job as it was.
C17_RemovalEmptiesThenIdle ==
    [][(last'.op \in {"remove_bot", "clear_bots"} /\ ~last'.raised) =>
        LET c == last'.chat
            before == SessionIn(registered_bots_dict, c)
            after == SessionIn(registered_bots_dict', c)
            removed == \/ last'.op = "clear_bots"
                       \/ /\ Len(last'.args) = 1
                          /\ HasBot(before, last'.args[1])
                          /\ ~HasBot(after, last'.args[1])
        IN  IF removed /\ after.registered_bots = << >>
            THEN ~fetch_job_running(after) /\ job_queue'[c] = 0
            ELSE /\ fetch_job_running(after) = fetch_job_running(before)
                 /\ job_queue'[c] = job_queue[c]]_vars

C17_Witness ==
    /\ last.op = "remove_bot"
    /\ ~last.raised
    /\ last.pre_running
    /\ EndsWith(last.replies, <<"successfully removed. Stopping fetch job.">>)
    /\ Get(registered_bots_dict, last.chat).registered_bots = << >>
    /\ ~fetch_job_running(Get(registered_bots_dict, last.chat))
    /\ job_queue[last.chat] = 0

DistinctNames(cc) ==
    \A i, j \in 1..Len(cc.registered_bots) :
        cc.registered_bots[i].name = cc.registered_bots[j].name => i = j

\* C18: after any sequence of add_bot, remove_bot, clear_bots and restarts no
\* two Targets of a Session have the same name, and the rehydration of the
\* startup, run on the registry and the store as they are, leaves it so.
C18_UniqueNames ==
    /\ \A k \in 1..Len(registered_bots_dict) :
         DistinctNames(registered_bots_dict[k].val)
    /\ \A seeds \in [Names -> SeedSets] :
         \A k \in 1..Len(registered_bots_dict) :
             DistinctNames(main(State, seeds).reg[k].val)

\* An add_bot with the name of a Target the Session has, and another link,
\* has completed: the Session has the one Target, with the link it had.
C18_Witness ==
    /\ last.op = "add_bot"
    /\ last.args = <<"a", "u2">>
    /\ ~last.raised
    /\ db_bots # << >>
    /\ LET bots == Get(registered_bots_dict, last.chat).registered_bots
       IN  /\ Len(bots) = 1
           /\ bots[1].name = "a"
           /\ bots[1].url = "u1"

\* C19: with one chat talking to the bot, the store empty at the start, no
\* store call raising and no restart, after every command the names of the
\* stored Targets are the names of the Session's Targets, and the stored
\* filters are the distinct strings of the Session's filter list.
C19_StoreMirrorsSession ==
    last.undisturbed =>
        LET cc == SessionIn(registered_bots_dict, 1)
        IN  /\ {row[1] : row \in Range(db_load_bots(db_bots))} = BotNames(cc)
            /\ Range(db_load_filters(db_filters)) = Range(cc.filters)

C19_Witness ==
    /\ last.undisturbed
    /\ last.op = "add_filter"
    /\ Get(registered_bots_dict, 1).filters = <<F2, F2>>
    /\ db_filters = <<F2>>
    /\ Len(db_bots) = 1
    /\ Len(Get(registered_bots_dict, 1).registered_bots) = 1

====
